---- MODULE Spec2Model ----
(***************************************************************************)
(* A model of fetch.py: the measurement extractor, the two paginating      *)
(* fetchers (DeviceFetcher, MessageFetcher), the orchestrating main and    *)
(* the top-level exception handler.                                        *)
(*                                                                         *)
(* Numbers of the JSON payload are fixed-point values with three decimals: *)
(* the integer n stands for n / 1000 (3305 is 3.305 V, 21340 is 21.34 C).  *)
(***************************************************************************)
EXTENDS Integers, Sequences, FiniteSets, TLC

VARIABLES
    pc,           \* position of the program
    api,          \* the REST API the run talks to (the environment)
    requests,     \* every requests.get call issued so far, in order
    responses,    \* status and item count of every response received
    fetch_start,  \* Len(requests) when the running fetch() was called
    sent,         \* items of the 200 pages the running fetch() received
    found,        \* fetch(): local found
    records,      \* fetch(): local records
    offset,       \* fetch(): local offset
    devices,      \* main: devices
    di,           \* main: index of the device the for loop is at
    messages,     \* main: messages of the device at di
    sheets,       \* main: sheets
    xlsx,         \* the output file: <<>> while unwritten, else <<sheets>>
    stdout,       \* lines and progress marks echoed to standard output
    stderr,       \* lines echoed to standard error
    exit_code,    \* exit status of the process, -1 while it runs
    message,      \* extractor harness: the message handed to the extractor
    measurement   \* extractor harness: what extract_measurement did with it

vars == <<pc, api, requests, responses, fetch_start, sent, found, records,
          offset, devices, di, messages, sheets, xlsx, stdout, stderr,
          exit_code, message, measurement>>

(***************************************************************************)
(* Program constants.                                                      *)
(***************************************************************************)
LOAD_RESISTOR == 39

limit == 100

Min(a, b) == IF a < b THEN a ELSE b

Abs(a) == IF a < 0 THEN -a ELSE a

(***************************************************************************)
(* JSON values.  A value is absent (the key is missing), null or a number. *)
(***************************************************************************)
JAbsent == [tag |-> "absent", n |-> 0]

JNull == [tag |-> "null", n |-> 0]

JNum(k) == [tag |-> "num", n |-> k]

\* dict.get(key): a missing key reads as None.
DictGet(v) == IF v.tag = "absent" THEN JNull ELSE v

\* Python truthiness of None and of numbers.
Truthy(v) == v.tag = "num" /\ v.n # 0

\* Nearest integer to num / den (den # 0), ties to the even neighbour.
RoundHalfEven(num, den) ==
    LET s == IF den < 0 THEN -1 ELSE 1
        a == s * num
        b == s * den
        q == a \div b
        rem == a - q * b
    IN  IF 2 * rem < b THEN q
        ELSE IF 2 * rem > b THEN q + 1
        ELSE IF q % 2 = 0 THEN q ELSE q + 1

\* round(x, ndigits) of the fixed-point number n, ndigits in 0..3.
PyRound(n, ndigits) ==
    LET unit == CASE ndigits = 0 -> 1000
                  [] ndigits = 1 -> 100
                  [] ndigits = 2 -> 10
                  [] OTHER -> 1
    IN  unit * RoundHalfEven(n, unit)

(***************************************************************************)
(* pendulum.parse(created_at).in_timezone('Europe/Prague')                 *)
(*         .to_datetime_string(), on the timestamps the model uses.        *)
(* Prague is UTC+1 in January and UTC+2 in July.                           *)
(***************************************************************************)
Timestamps == {"2020-01-15T12:00:00Z", "2020-07-15T23:30:00+00:00",
               "2020-01-15T12:00:00+01:00"}

BadTimestamps == {"not-a-date"}

PragueDate(created_at) ==
    CASE created_at = "2020-01-15T12:00:00Z" -> "2020-01-15 13:00:00"
      [] created_at = "2020-07-15T23:30:00+00:00" -> "2020-07-16 01:30:00"
      [] created_at = "2020-01-15T12:00:00+01:00" -> "2020-01-15 12:00:00"

(***************************************************************************)
(* extract_measurement(message).  The outcome is None, a record, or an     *)
(* exception leaving the function.                                         *)
(***************************************************************************)
NoRecord ==
    [label |-> "", date |-> "", t1 |-> JNull, t2 |-> JNull,
     v1 |-> JNull, v2 |-> JNull, r |-> JNull]

ReturnNone == [kind |-> "None", exc |-> "", value |-> NoRecord]

Raise(e) == [kind |-> "raise", exc |-> e, value |-> NoRecord]

Return(rec) == [kind |-> "record", exc |-> "", value |-> rec]

\* message['data'].get('sensor', {}).get(part, {}).get('temperature')
Temperature(data, part) ==
    IF data.sensor.tag = "absent" THEN JNull
    ELSE IF data.sensor[part].tag = "absent" THEN JNull
    ELSE DictGet(data.sensor[part].temperature)

\* round(t, 1) if t is not None else None
RoundTemperature(t) ==
    IF t.tag = "null" THEN JNull ELSE JNum(PyRound(t.n, 1))

\* if v1 and v2:
BothVoltages(v1, v2) == Truthy(v1) /\ Truthy(v2)

\* Faulty variant: round(LOAD_RESISTOR * (v1 - v2) / v1, 2)
Resistance_overV1(v1, v2) ==
    10 * RoundHalfEven(LOAD_RESISTOR * (v1 - v2) * 100, v1)

\* round(LOAD_RESISTOR * (v1 - v2) / v2, 2), for v2 # 0
Resistance(v1, v2) ==
    10 * RoundHalfEven(LOAD_RESISTOR * (v1 - v2) * 100, v2)

\* Faulty variant: 'v2': round(v1, 2)
MeasurementRecord_v1Twice(m, date, v1, v2, t1, t2) ==
    IF v1.tag # "num" \/ v2.tag # "num" THEN Raise("TypeError")
    ELSE IF v2.n = 0 THEN Raise("ZeroDivisionError")
    ELSE Return([label |-> m.label,
                 date |-> date,
                 t1 |-> RoundTemperature(t1),
                 t2 |-> RoundTemperature(t2),
                 v1 |-> JNum(PyRound(v1.n, 2)),
                 v2 |-> JNum(PyRound(v1.n, 2)),
                 r |-> JNum(Resistance(v1.n, v2.n))])

\* The dict literal of lines 32-40; evaluating it can raise.
MeasurementRecord(m, date, v1, v2, t1, t2) ==
    IF v1.tag # "num" \/ v2.tag # "num" THEN Raise("TypeError")
    ELSE IF v2.n = 0 THEN Raise("ZeroDivisionError")
    ELSE Return([label |-> m.label,
                 date |-> date,
                 t1 |-> RoundTemperature(t1),
                 t2 |-> RoundTemperature(t2),
                 v1 |-> JNum(PyRound(v1.n, 2)),
                 v2 |-> JNum(PyRound(v2.n, 2)),
                 r |-> JNum(Resistance(v1.n, v2.n))])

extract_measurement(m) ==
    IF m.data.battery.tag = "absent" THEN ReturnNone
    ELSE IF m.created_at \notin Timestamps THEN Raise("ParserError")
    ELSE LET date == PragueDate(m.created_at)
             v1 == DictGet(m.data.battery.voltage1)
             v2 == DictGet(m.data.battery.voltage2)
             t1 == Temperature(m.data, "thermometer")
             t2 == Temperature(m.data, "hygrometer")
         IN  IF BothVoltages(v1, v2)
             THEN MeasurementRecord(m, date, v1, v2, t1, t2)
             ELSE ReturnNone

(***************************************************************************)
(* The messages the extractor is given.                                    *)
(***************************************************************************)
Voltages ==
    {JAbsent, JNull, JNum(0), JNum(4), JNum(1500), JNum(3305), JNum(-1500)}

Temperatures == {JAbsent, JNull, JNum(21340), JNum(-360)}

NoBattery == [tag |-> "absent", voltage1 |-> JAbsent, voltage2 |-> JAbsent]

Batteries ==
    {NoBattery} \cup
    {[tag |-> "obj", voltage1 |-> a, voltage2 |-> b] :
        a \in Voltages, b \in Voltages}

NoPart == [tag |-> "absent", temperature |-> JAbsent]

Part(t) == [tag |-> "obj", temperature |-> t]

NoSensor == [tag |-> "absent", thermometer |-> NoPart, hygrometer |-> NoPart]

Sensors ==
    {NoSensor,
     [tag |-> "obj", thermometer |-> NoPart, hygrometer |-> NoPart]} \cup
    {[tag |-> "obj", thermometer |-> Part(t), hygrometer |-> NoPart] :
        t \in Temperatures} \cup
    {[tag |-> "obj", thermometer |-> Part(JNum(21340)), hygrometer |-> Part(t)] :
        t \in Temperatures}

Messages ==
    {[label |-> "start", created_at |-> c,
      data |-> [battery |-> b, sensor |-> s]] :
        c \in Timestamps \cup BadTimestamps, b \in Batteries, s \in Sensors}

(***************************************************************************)
(* Devices.  An id is a sequence of characters, so that id[:30] is a       *)
(* slice.                                                                  *)
(***************************************************************************)
group_id == "g1"

api_token == "t0"

LongId == [i \in 1..32 |-> IF i <= 30 THEN "a" ELSE "x"]

ShortId == <<"b", "0", "1">>

DeviceA ==
    [id |-> LongId, name |-> "A", group_id |-> "g1", api_token |-> "tA"]

DeviceB ==
    [id |-> ShortId, name |-> "B", group_id |-> "g1", api_token |-> "tB"]

DeviceIds == {LongId, ShortId}

\* device['id'][:30]
SheetName(id) == SubSeq(id, 1, Min(30, Len(id)))

(***************************************************************************)
(* The REST API.  In mode "any" an endpoint answers a request with any     *)
(* status and any page; in mode "list" it answers with the slice           *)
(* [offset, offset + limit) of one fixed list, and fails only if           *)
(* api.fails.  A list is [n, mix]: its i-th item is the mix repeated,      *)
(* and n = -1 is a list without end.                                       *)
(***************************************************************************)
Item(mix, i) == mix[((i - 1) % Len(mix)) + 1]

Page(size, mix, from) == [i \in 1..size |-> Item(mix, from + i)]

ListSlice(list, off, lim) ==
    LET last == IF list.n < 0 THEN off + lim ELSE Min(off + lim, list.n)
    IN  IF last <= off THEN <<>> ELSE Page(last - off, list.mix, off)

EmptyList(item) == [n |-> 0, mix |-> <<item>>]

FailStatuses == {500, 204}

PageSizes == {0, 1, 37, limit - 1, limit, limit + 1}

Failure(status) == [status_code |-> status, data |-> <<>>]

Success(data) == [status_code |-> 200, data |-> data]

Respond(list, mixes, req) ==
    IF api.mode = "any"
    THEN {Failure(s) : s \in FailStatuses} \cup
         {Success(Page(size, mix, 0)) : size \in PageSizes, mix \in mixes}
    ELSE {Failure(s) : s \in IF api.fails THEN FailStatuses ELSE {}} \cup
         {Success(ListSlice(list, req.offset, req.limit))}

(***************************************************************************)
(* DeviceFetcher and MessageFetcher.                                       *)
(***************************************************************************)
\* The cap on the page requests of one fetch() the model follows.
MaxRequests == 3

DeviceRequest(off) ==
    [url |-> "devices", group_id |-> group_id, device_id |-> <<>>,
     limit |-> limit, offset |-> off, token |-> api_token]

MessageRequest(device, off) ==
    [url |-> "messages", group_id |-> device.group_id,
     device_id |-> device.id, limit |-> limit, offset |-> off,
     token |-> device.api_token]

\* Faulty variant: every status but 500 is taken for success.
DeviceFetcher_get_lenient(resp) ==
    IF resp.status_code >= 500
    THEN [raised |-> TRUE, data |-> <<>>]
    ELSE [raised |-> FALSE, data |-> resp.data]

\* _get: a status other than 200 raises FetchException.
DeviceFetcher_get(resp) ==
    IF resp.status_code # 200
    THEN [raised |-> TRUE, data |-> <<>>]
    ELSE [raised |-> FALSE, data |-> resp.data]

\* Faulty variant: the status is not looked at.
MessageFetcher_get_unchecked(resp) == [raised |-> FALSE, data |-> resp.data]

MessageFetcher_get(resp) ==
    IF resp.status_code # 200
    THEN [raised |-> TRUE, data |-> <<>>]
    ELSE [raised |-> FALSE, data |-> resp.data]

\* records += data
Accumulate(recs, data) == recs \o data

\* Faulty variant: offset += limit
Advance_byLimit(off, count) == off + limit

\* offset += count
Advance(off, count) == off + count

\* Faulty variant: if count == 0: break
LastPage_emptyOnly(count) == count = 0

\* Faulty variant: if count == 0 or count <= limit: break
LastPage_atLimit(count) == count = 0 \/ count <= limit

\* if count == 0 or count < limit: break
LastPage(count) == count = 0 \/ count < limit

\* Entering fetch(): found = False; records = []; offset = 0
EnterFetch ==
    /\ found' = FALSE
    /\ records' = <<>>
    /\ offset' = 0
    /\ fetch_start' = Len(requests)
    /\ sent' = <<>>

\* One pass of DeviceFetcher.fetch's loop, and what follows its end:
\* the return to main (devices = ..., sheets = []) or the exception.
DeviceFetcher_fetch ==
    /\ pc = "DeviceFetcher.fetch"
    /\ Len(requests) - fetch_start < MaxRequests
    /\ LET req == DeviceRequest(offset)
       IN  \E resp \in Respond(api.device_list, api.device_mixes, req) :
             LET got == DeviceFetcher_get(resp)
                 count == Len(got.data)
             IN  /\ found' = TRUE
                 /\ requests' = Append(requests, req)
                 /\ responses' = Append(responses,
                        [status_code |-> resp.status_code,
                         count |-> Len(resp.data)])
                 /\ IF got.raised
                    THEN /\ pc' = "FetchException"
                         /\ stdout' = Append(stdout, ".")
                         /\ UNCHANGED <<records, offset, sent, devices, di,
                                        sheets>>
                    ELSE /\ records' = Accumulate(records, got.data)
                         /\ offset' = Advance(offset, count)
                         /\ sent' = sent \o resp.data
                         /\ IF LastPage(count)
                            THEN /\ stdout' = stdout \o <<".", "newline">>
                                 /\ devices' = records'
                                 /\ sheets' = <<>>
                                 /\ di' = 1
                                 /\ pc' = "for device"
                            ELSE /\ stdout' = Append(stdout, ".")
                                 /\ UNCHANGED <<devices, di, sheets, pc>>
    /\ UNCHANGED <<api, fetch_start, messages, xlsx, stderr, exit_code,
                   message, measurement>>

\* One pass of MessageFetcher.fetch's loop, and what follows its end.
MessageFetcher_fetch ==
    /\ pc = "MessageFetcher.fetch"
    /\ Len(requests) - fetch_start < MaxRequests
    /\ LET device == devices[di]
           req == MessageRequest(device, offset)
       IN  \E resp \in Respond(api.message_list[device.id],
                               api.message_mixes, req) :
             LET got == MessageFetcher_get(resp)
                 count == Len(got.data)
             IN  /\ found' = TRUE
                 /\ requests' = Append(requests, req)
                 /\ responses' = Append(responses,
                        [status_code |-> resp.status_code,
                         count |-> Len(resp.data)])
                 /\ IF got.raised
                    THEN /\ pc' = "FetchException"
                         /\ stdout' = Append(stdout, ".")
                         /\ UNCHANGED <<records, offset, sent, messages>>
                    ELSE /\ records' = Accumulate(records, got.data)
                         /\ offset' = Advance(offset, count)
                         /\ sent' = sent \o resp.data
                         /\ IF LastPage(count)
                            THEN /\ stdout' = stdout \o <<".", "newline">>
                                 /\ messages' = records'
                                 /\ pc' = "for m"
                            ELSE /\ stdout' = Append(stdout, ".")
                                 /\ UNCHANGED <<messages, pc>>
    /\ UNCHANGED <<api, fetch_start, devices, di, sheets, xlsx, stderr,
                   exit_code, message, measurement>>

(***************************************************************************)
(* main and the handler around it.                                         *)
(***************************************************************************)
FailMessage == "Request to REST API failed. Please, check your parameters!"

\* main, up to the call of DeviceFetcher(...).fetch()
main ==
    /\ pc = "main"
    /\ stdout' = Append(stdout, "Fetching data for group")
    /\ EnterFetch
    /\ pc' = "DeviceFetcher.fetch"
    /\ UNCHANGED <<api, requests, responses, devices, di, messages, sheets,
                   xlsx, stderr, exit_code, message, measurement>>

\* for device in devices: ... MessageFetcher(...).fetch()
ForDevice ==
    /\ pc = "for device"
    /\ di <= Len(devices)
    /\ stdout' = Append(stdout, "Fetching messages for device")
    /\ EnterFetch
    /\ pc' = "MessageFetcher.fetch"
    /\ UNCHANGED <<api, requests, responses, devices, di, messages, sheets,
                   xlsx, stderr, exit_code, message, measurement>>

\* The results of extract_measurement over the messages, in order.
Extracted(msgs) == [i \in 1..Len(msgs) |-> extract_measurement(msgs[i])]

IsRecord(res) == res.kind = "record"

\* Faulty variant: measurements.insert(0, measurement)
Measurements_reversed(msgs) ==
    LET kept == SelectSeq(Extracted(msgs), IsRecord)
    IN  [i \in 1..Len(kept) |-> kept[Len(kept) + 1 - i].value]

\* measurements: the results that are not None, in message order.
Measurements(msgs) ==
    LET kept == SelectSeq(Extracted(msgs), IsRecord)
    IN  [i \in 1..Len(kept) |-> kept[i].value]

\* {'name': device['id'][:30], 'data': pandas.DataFrame(measurements)}
Sheet(device, msgs) ==
    [name |-> SheetName(device.id), data |-> Measurements(msgs)]

\* for m in messages: ..., then sheets.append(...).  An exception of
\* extract_measurement leaves main and no handler catches it: the
\* interpreter prints the traceback and exits with status 1.
WalkMessages ==
    /\ pc = "for m"
    /\ LET res == Extracted(messages)
           raising == {i \in 1..Len(res) : res[i].kind = "raise"}
       IN  IF raising # {}
           THEN /\ pc' = "exited"
                /\ stderr' = Append(stderr, "Traceback")
                /\ exit_code' = 1
                /\ UNCHANGED <<sheets, di>>
           ELSE /\ sheets' = Append(sheets, Sheet(devices[di], messages))
                /\ di' = di + 1
                /\ pc' = "for device"
                /\ UNCHANGED <<stderr, exit_code>>
    /\ UNCHANGED <<api, requests, responses, fetch_start, sent, found,
                   records, offset, devices, messages, xlsx, stdout, message,
                   measurement>>

\* with pandas.ExcelWriter(xlsx_file) as writer: ...; main returns and
\* click ends the process with status 0.
WriteXlsx ==
    /\ pc = "for device"
    /\ di > Len(devices)
    /\ stdout' = Append(stdout, "Generating XLSX file...")
    /\ xlsx' = <<sheets>>
    /\ exit_code' = 0
    /\ pc' = "exited"
    /\ UNCHANGED <<api, requests, responses, fetch_start, sent, found,
                   records, offset, devices, di, messages, sheets, stderr,
                   message, measurement>>

\* Status of the process after the handler of FetchException has run: the
\* handler echoes and falls off the end of the script.
HandlerExitCode == 0

\* except FetchException: click.echo(..., err=True)
HandleFetchException ==
    /\ pc = "FetchException"
    /\ stderr' = Append(stderr, FailMessage)
    /\ exit_code' = HandlerExitCode
    /\ pc' = "exited"
    /\ UNCHANGED <<api, requests, responses, fetch_start, sent, found,
                   records, offset, devices, di, messages, sheets, xlsx,
                   stdout, message, measurement>>

\* extract_measurement called on its own.
ExtractCall ==
    /\ pc = "extract_measurement"
    /\ measurement' = extract_measurement(message)
    /\ pc' = "extracted"
    /\ UNCHANGED <<api, requests, responses, fetch_start, sent, found,
                   records, offset, devices, di, messages, sheets, xlsx,
                   stdout, stderr, exit_code, message>>

(***************************************************************************)
(* The data the API serves.                                                *)
(***************************************************************************)
Msg(label, created_at, v1, v2, sensor) ==
    [label |-> label, created_at |-> created_at,
     data |-> [battery |-> [tag |-> "obj", voltage1 |-> v1, voltage2 |-> v2],
               sensor |-> sensor]]

Valid1 ==
    Msg("m1", "2020-01-15T12:00:00Z", JNum(3305), JNum(1500),
        [tag |-> "obj", thermometer |-> Part(JNum(21340)),
         hygrometer |-> NoPart])

Valid2 == Msg("m2", "2020-07-15T23:30:00+00:00", JNum(1500), JNum(3305), NoSensor)

Tiny == Msg("m3", "2020-01-15T12:00:00+01:00", JNum(3305), JNum(4), NoSensor)

ZeroVolt == Msg("m4", "2020-01-15T12:00:00Z", JNum(3305), JNum(0), NoSensor)

BadDate == Msg("m5", "not-a-date", JNull, JNum(1500), NoSensor)

\* No battery field; its timestamp does not parse either.
Unpowered ==
    [label |-> "m6", created_at |-> "not-a-date",
     data |-> [battery |-> NoBattery, sensor |-> NoSensor]]

MessageMixes ==
    {<<Valid1, Unpowered, Valid2>>, <<Tiny, ZeroVolt>>, <<Valid1, BadDate>>}

DeviceMixes == {<<DeviceA, DeviceB>>, <<DeviceB>>}

Lists(counts, mixes) == {[n |-> c, mix |-> m] : c \in counts, m \in mixes}

\* Lengths around the page size, up to what MaxRequests pages can hold.
Lengths ==
    {k * limit + r : k \in 0..(MaxRequests - 1), r \in {0, 1, 37, limit - 1}}

\* A fleet of a few devices with message lists of every length, or a fleet
\* of more than a page of devices with a few messages each.
Fleets ==
    LET small == Lists({0, 1, 2}, {<<DeviceA, DeviceB>>})
        large == Lists({limit, limit + 1}, {<<DeviceA, DeviceB>>})
        long == Lists({0, 3, limit, 2 * limit + 37}, MessageMixes)
        short == Lists({0, 3}, MessageMixes)
    IN  {[mode |-> "list", fails |-> TRUE, device_list |-> d,
          message_list |-> ml, device_mixes |-> {}, message_mixes |-> {}] :
            d \in small, ml \in [DeviceIds -> long]}
        \cup
        {[mode |-> "list", fails |-> TRUE, device_list |-> d,
          message_list |-> ml, device_mixes |-> {}, message_mixes |-> {}] :
            d \in large, ml \in [DeviceIds -> short]}

\* An API that answers every request as it likes.
AnyApi ==
    [mode |-> "any", fails |-> TRUE,
     device_list |-> EmptyList(DeviceA),
     message_list |-> [id \in DeviceIds |-> EmptyList(Valid1)],
     device_mixes |-> DeviceMixes,
     message_mixes |-> {<<Valid1, Unpowered, Valid2>>, <<Tiny, ZeroVolt>>}]

\* An API that serves one fixed list from each endpoint and never fails.
ListApis ==
    {[mode |-> "list", fails |-> FALSE, device_list |-> d,
      message_list |-> [id \in DeviceIds |-> ml],
      device_mixes |-> {}, message_mixes |-> {}] :
        d \in Lists(Lengths \cup {-1}, DeviceMixes),
        ml \in Lists(Lengths \cup {-1}, {<<Valid1, Unpowered, Valid2>>})}

(***************************************************************************)
(* Specifications.                                                         *)
(***************************************************************************)
InitCommon ==
    /\ requests = <<>>
    /\ responses = <<>>
    /\ fetch_start = 0
    /\ sent = <<>>
    /\ found = FALSE
    /\ records = <<>>
    /\ offset = 0
    /\ di = 1
    /\ messages = <<>>
    /\ sheets = <<>>
    /\ xlsx = <<>>
    /\ stdout = <<>>
    /\ stderr = <<>>
    /\ exit_code = -1
    /\ measurement = ReturnNone

\* A run of the program against a fleet.
Init ==
    /\ pc = "main"
    /\ api \in Fleets
    /\ devices = <<>>
    /\ message = Valid1
    /\ InitCommon

Next ==
    \/ main
    \/ DeviceFetcher_fetch
    \/ ForDevice
    \/ MessageFetcher_fetch
    \/ WalkMessages
    \/ WriteXlsx
    \/ HandleFetchException

Spec == Init /\ [][Next]_vars

\* One call of DeviceFetcher.fetch or of MessageFetcher.fetch.
InitCall ==
    /\ \/ pc = "DeviceFetcher.fetch" /\ devices = <<>>
       \/ pc = "MessageFetcher.fetch" /\ devices = <<DeviceA>>
    /\ message = Valid1
    /\ InitCommon

NextFetch == DeviceFetcher_fetch \/ MessageFetcher_fetch

\* ... against an API that answers as it likes.
InitFetch == api = AnyApi /\ InitCall

SpecFetch == InitFetch /\ [][NextFetch]_vars

\* ... against an API that serves a fixed list; the loop keeps running.
InitList == api \in ListApis /\ InitCall

SpecList == InitList /\ [][NextFetch]_vars /\ WF_vars(NextFetch)

\* extract_measurement applied to one message.
InitExtract ==
    /\ pc = "extract_measurement"
    /\ api = AnyApi
    /\ devices = <<>>
    /\ message \in Messages \cup {Valid1, Valid2, Tiny, ZeroVolt, BadDate, Unpowered}
    /\ InitCommon

SpecExtract == InitExtract /\ [][ExtractCall]_vars

(***************************************************************************)
(* Vocabulary of the properties.                                           *)
(***************************************************************************)
Failed(i) == responses[i].status_code # 200

AllOk == \A i \in 1..Len(responses) : ~Failed(i)

SomeFailed == \E i \in 1..Len(responses) : Failed(i)

Returned == pc \in {"for device", "for m"}

\* Which fetcher a single call runs, and what it handed back.
FetchKind ==
    IF requests # <<>> THEN requests[1].url
    ELSE IF pc = "DeviceFetcher.fetch" THEN "devices" ELSE "messages"

Result == IF FetchKind = "devices" THEN devices ELSE messages

TheList ==
    IF FetchKind = "devices" THEN api.device_list
    ELSE api.message_list[LongId]

FullList(list) == ListSlice(list, 0, list.n)

PagesOf(list) == (list.n \div limit) + 1

Counts == [i \in 1..Len(responses) |-> responses[i].count]

RECURSIVE SumCounts(_)
SumCounts(k) == IF k = 0 THEN 0 ELSE SumCounts(k - 1) + responses[k].count

Written == xlsx # <<>>

(***************************************************************************)
(* Properties of one fetch() call (SpecFetch).                             *)
(***************************************************************************)
\* C2: a page response with a status other than 200 is the last thing the
\* fetch does: it is the last response, no request follows it, the call
\* has left by FetchException, and the caller was handed nothing (neither
\* devices nor messages was assigned), whatever records had accumulated.
C2_FailureAborts ==
    \A i \in 1..Len(responses) :
        Failed(i) =>
            /\ i = Len(responses)
            /\ Len(requests) = i
            /\ pc = "FetchException"
            /\ messages = <<>>
            /\ FetchKind = "devices" => devices = <<>>

\* The third page failed after two full pages had been accumulated.
C2_Witness ==
    /\ pc = "FetchException"
    /\ Len(requests) = 3
    /\ Failed(3)
    /\ Len(records) >= 2 * limit
    /\ Result = <<>>

\* C3: with every response 200, a page of fewer than limit (100) items (an
\* empty one included) is the last page requested and the fetch returns
\* right after it; the fetch returns after no other page; a first page of
\* size 0 gives an empty result after exactly one request.
C3_StopsAtShortPage ==
    AllOk =>
        /\ Len(requests) = Len(responses)
        /\ \A i \in 1..Len(responses) :
              responses[i].count < 100 => i = Len(responses) /\ Returned
        /\ Returned =>
              /\ responses # <<>>
              /\ responses[Len(responses)].count < 100
        /\ (responses # <<>> /\ responses[1].count = 0) =>
              Len(requests) = 1 /\ Returned /\ Result = <<>>

\* Pages of 100, 100 and 37 items: the fetch returned after three requests.
C3_Witness ==
    /\ AllOk
    /\ Returned
    /\ Counts = <<100, 100, 37>>
    /\ Len(requests) = 3

\* C4: with every response 200, every request carries limit = 100, the
\* k-th request carries as offset the number of items of the pages before
\* it (0 for the first, more for each later one), the records held are
\* the pages' items joined in request order, and those are what is
\* returned.
C4_OffsetsAndOrder ==
    AllOk =>
        /\ \A i \in 1..Len(requests) :
              /\ requests[i].limit = 100
              /\ requests[i].offset = SumCounts(i - 1)
              /\ i > 1 => requests[i].offset > requests[i - 1].offset
        /\ records = sent
        /\ Len(records) = SumCounts(Len(responses))
        /\ Returned => Result = sent

\* Pages of 100, 100 and 37 items gave 237 records, of more than one kind.
C4_Witness ==
    /\ AllOk
    /\ Returned
    /\ Counts = <<100, 100, 37>>
    /\ Len(Result) = 237
    /\ Result[1] # Result[2]

(***************************************************************************)
(* Properties of a run of main (Spec).                                     *)
(***************************************************************************)
RECURSIVE MessagePages(_)
\* Page requests the message listings of the first k devices take.
MessagePages(k) ==
    IF k = 0 THEN 0
    ELSE MessagePages(k - 1) + PagesOf(api.message_list[devices[k].id])

\* C1: a response with a status other than 200 ends the run: it is the
\* last response, no request follows it, and the Writer is never invoked;
\* and once the Writer has been invoked every response was 200, the
\* device listing was read to its end and so was the message listing of
\* every device returned.
C1_WriterOnlyAfterAllFetches ==
    /\ \A i \in 1..Len(responses) :
          Failed(i) =>
              /\ i = Len(responses)
              /\ Len(requests) = i
              /\ pc \in {"FetchException", "exited"}
              /\ ~Written
    /\ Written =>
          /\ AllOk
          /\ devices = FullList(api.device_list)
          /\ Len(requests) = PagesOf(api.device_list) + MessagePages(Len(devices))
          /\ Len(xlsx[1]) = Len(devices)

\* The message listing of a later device failed after a sheet had been
\* collected; the run is over and nothing was written.
C1_Witness ==
    /\ pc = "exited"
    /\ SomeFailed
    /\ requests[Len(requests)].url = "messages"
    /\ Len(sheets) >= 1
    /\ ~Written

\* The results of extract_measurement over msgs that are not None, first
\* to last: the j-th row comes from the j-th message that yields one.
NonNone(msgs) ==
    LET yields == {i \in 1..Len(msgs) : extract_measurement(msgs[i]).kind # "None"}
        rank(i) == Cardinality({k \in yields : k <= i})
    IN  [j \in 1..Cardinality(yields) |->
            extract_measurement(
                msgs[CHOOSE i \in yields : rank(i) = j]).value]

\* C5: the sheets handed to the Writer are one per device of the device
\* listing, in its order, and the rows of the i-th are the results of
\* extract_measurement over the i-th device's messages that are not None,
\* in message order.
C5_SheetsPerDevice ==
    Written =>
        LET out == xlsx[1]
            listed == FullList(api.device_list)
        IN  /\ Len(out) = Len(listed)
            /\ \A i \in 1..Len(out) :
                  out[i].data =
                      NonNone(FullList(api.message_list[listed[i].id]))

\* Device A with three messages, one of them without battery, and device B
\* with none: two sheets, of two rows and of no row.
C5_Witness ==
    /\ Written
    /\ devices = <<DeviceA, DeviceB>>
    /\ api.message_list[LongId] = [n |-> 3, mix |-> <<Valid1, Unpowered, Valid2>>]
    /\ api.message_list[ShortId].n = 0
    /\ Len(xlsx[1]) = 2
    /\ Len(xlsx[1][1].data) = 2
    /\ Len(xlsx[1][2].data) = 0

\* C7: a run in which a page request returned a status other than 200 ends
\* with the one fixed message on standard error, once, and a non-zero
\* exit status.
C7_FailureExitsNonZero ==
    (pc = "exited" /\ SomeFailed) =>
        /\ stderr = <<FailMessage>>
        /\ exit_code # 0

(***************************************************************************)
(* Properties of a fetch() call against a fixed list (SpecList).           *)
(***************************************************************************)
Complete ==
    /\ TheList.n >= 0
    /\ Len(requests) = (TheList.n \div 100) + 1
    /\ AllOk
    /\ Result = FullList(TheList)

\* C10: against an endpoint that serves the slices of one list of N items
\* the fetch returns, after exactly floor(N / 100) + 1 requests, all N
\* items; against an endpoint whose every page holds 100 items it never
\* returns.
C10_TerminatesOnFiniteList ==
    /\ (TheList.n >= 0) ~> (Returned /\ Complete)
    /\ [](Returned => Complete)
    /\ []((TheList.n < 0 /\ responses # <<>>) =>
             ~Returned /\ responses[Len(responses)].count = 100)

\* A list of 200 items: two full pages, then a third request that finds
\* an empty page.
C10_Witness ==
    /\ Returned
    /\ TheList.n = 200
    /\ Counts = <<100, 100, 0>>
    /\ Len(Result) = 200

(***************************************************************************)
(* Properties of extract_measurement (SpecExtract).                        *)
(***************************************************************************)
Battery == message.data.battery

HasBattery == Battery.tag = "obj"

RawV1 == DictGet(Battery.voltage1)

RawV2 == DictGet(Battery.voltage2)

\* C6: a message without battery, or with voltage1 or voltage2 missing,
\* null or zero, gives None and never an exception, whatever else it
\* holds.
C6_FailsClosed ==
    (pc = "extracted" /\ (~HasBattery \/ ~Truthy(RawV1) \/ ~Truthy(RawV2))) =>
        measurement = ReturnNone

\* C8: for a message (its created_at a timestamp) with a battery and both
\* voltages present and non-zero the outcome is a record whose r is
\* 39 * (v1 - v2) / v2 rounded to two decimals: a multiple of 0.01 no
\* further than 0.005 from the quotient.  No message makes the division
\* divide by zero, and no record carries another r.
C8_ResistanceRounded ==
    pc = "extracted" =>
        /\ measurement.exc # "ZeroDivisionError"
        /\ (HasBattery /\ Truthy(RawV1) /\ Truthy(RawV2)
              /\ message.created_at \in Timestamps) =>
                 measurement.kind = "record"
        /\ measurement.kind = "record" =>
              LET r == measurement.value.r
                  v1 == RawV1.n
                  v2 == RawV2.n
              IN  /\ r.tag = "num"
                  /\ r.n % 10 = 0
                  /\ 2 * Abs((r.n \div 10) * v2 - 39 * 100 * (v1 - v2))
                        <= Abs(v2)

\* 3.305 V over 1.5 V: r = 39 * 1.805 / 1.5 = 46.93.
C8_Witness ==
    /\ pc = "extracted"
    /\ RawV1 = JNum(3305)
    /\ RawV2 = JNum(1500)
    /\ measurement.kind = "record"
    /\ measurement.value.r = JNum(46930)

\* C9 as stated: every record has v1 and v2 present and v2 different
\* from 0.
C9_StoredV2NonZero ==
    (pc = "extracted" /\ measurement.kind = "record") =>
        /\ measurement.value.v1.tag = "num"
        /\ measurement.value.v2.tag = "num"
        /\ measurement.value.v2.n # 0

\* C9 as amended: every record has v1 and v2 present (numbers), and the
\* voltage2 it was made from is different from 0; the stored v2 is that
\* voltage rounded to two decimals, so it is 0 when the voltage is
\* closer to 0 than 0.005 and different from 0 when it is further.
C9_RawV2NonZero ==
    (pc = "extracted" /\ measurement.kind = "record") =>
        /\ measurement.value.v1.tag = "num"
        /\ measurement.value.v2.tag = "num"
        /\ RawV2.tag = "num"
        /\ RawV2.n # 0
        /\ Abs(RawV2.n) < 5 => measurement.value.v2.n = 0
        /\ Abs(RawV2.n) > 5 => measurement.value.v2.n # 0

\* A voltage2 of 0.004 V: the record's v2 is 0.
C9_Witness ==
    /\ pc = "extracted"
    /\ measurement.kind = "record"
    /\ RawV2 = JNum(4)
    /\ measurement.value.v2 = JNum(0)

====
